---- MODULE Spec2Model ----
(***************************************************************************)
(* The job framework of pkg/job: taskQueue, MetricsCollector, workerPool,  *)
(* jobRunner and TestRunner, as one state machine.  Each goroutine of      *)
(* workerPool.Run is a process whose steps are the points at which it      *)
(* touches shared state (the queue mutex, the queue, the metrics mutex,    *)
(* the counters, the WaitGroup); the runner goroutine is one more process. *)
(***************************************************************************)
EXTENDS Integers, Sequences, FiniteSets, TLC

\* Largest workerCount handed to Run and largest task list GetTasks returns.
MaxWorkers == 2
MaxTasks == 2
\* Largest maxRetries handed to retryWithBackoff.
MaxRetries == 3

WorkerIds == 0..(MaxWorkers - 1)
TaskIds == 1..MaxTasks
\* workerCount is a Go int: zero and a negative value are possible arguments.
WorkerCounts == (0 - 1)..MaxWorkers
\* maxRetries is a Go int as well.
RetryCounts == (0 - 1)..MaxRetries

VARIABLES
    runner,         \* the function in control: "RunE" (the command built by Build, before
                    \* it calls Run), "jobRunner" or "TestRunner" (their Run)
    workerCount,    \* job.GetWorkerCount() / the workerCount argument of Run
    BeforeJob,      \* jr.BeforeJob as Run's test of it finds it: "set" or "nil"
                    \* ("unread" until then)
    AfterJob,       \* jr.AfterJob as Run's test of it finds it: "set" or "nil"
                    \* ("unread" until then)
    PanicHandler,   \* PanicHandler != nil
    ctxDone,        \* the context passed to Run has been cancelled
    rpc,            \* position of the goroutine that executes Run
    runErr,         \* what Run gave its caller ("running" until then)
    tasks,          \* the slice job.GetTasks() returned
    taskTotal,      \* the local taskTotal of Run
    Tasks,          \* taskQueue.Tasks
    qmu,            \* holders of taskQueue.mu
    metrics,        \* MetricsCollector: taskTotal, taskSuccess, taskFailed
    mu,             \* holders of MetricsCollector.mu
    pool,           \* workerPool.Run: "idle", "running", "returned"
    spawned,        \* the loop variable i of workerPool.Run
    wg,             \* the WaitGroup counter
    wpc,            \* position of each worker goroutine
    task,           \* each worker's local variable task (0: none)
    got,            \* per task: how many times GetTask returned it
    calls,          \* per task: how many times its Process was invoked
    result,         \* per task: how its last Process call ended
    hooks,          \* calls so far of BeforeJob, GetTasks, AfterJob, Report
    hookResult,     \* how the call of each of them ended ("none": not called)
    handled,        \* calls so far of the panic handler, by scope
    reported,       \* the snapshots the reporter consumed
    snap,           \* what the last Snapshot() of a concurrent observer returned
    env,            \* the environment variables PullSecretJob.GetTasks reads
    DryRun,         \* PullSecretJob.DryRun (the --dry-run flag)
    jobTasks,       \* the []job.Task PullSecretJob.GetTasks returned
    jobErr,         \* the error it returned ("none" until it returns)
    ppc,            \* position of the goroutine inside PullSecretTask.Process
    procErr,        \* what Process returned ("none" until then)
    client,         \* the Secret Manager client: "none", "open", "closed"
    fpc,            \* position inside the fn retryWithBackoff is calling
    exists,         \* the local exists of createOrUpdateSecret
    ops,            \* the API calls of the current invocation of fn, with results
    apiCalls,       \* per API operation: how many times Process called it
    stepRet,        \* what the two retryWithBackoff calls of Process returned
    maxRetries,     \* the maxRetries argument of retryWithBackoff
    retryI,         \* its loop variable i
    err,            \* its local err: what the last call of fn returned
    backoff,        \* its local backoff in milliseconds (0 outside the select)
    attempts,       \* what each call of fn so far returned
    retpc,          \* position of the goroutine inside retryWithBackoff
    ret             \* what retryWithBackoff returned ("none" until then)

vars == <<runner, workerCount, BeforeJob, AfterJob, PanicHandler, ctxDone, rpc,
          runErr, tasks, taskTotal, Tasks, qmu, metrics, mu, pool, spawned, wg,
          wpc, task, got, calls, result, hooks, hookResult, handled, reported,
          snap, env, DryRun, jobTasks, jobErr, ppc, procErr, client, fpc, exists,
          ops, apiCalls, stepRet, maxRetries, retryI, err, backoff,
          attempts, retpc, ret>>

config == <<runner, workerCount, BeforeJob, AfterJob, PanicHandler>>
queue == <<Tasks, qmu>>
workers == <<wpc, task, got, calls, result>>
collector == <<metrics, mu>>
pullSecretJob == <<env, DryRun, jobTasks, jobErr>>
pullSecretTask == <<ppc, procErr, client, fpc, exists, ops, apiCalls, stepRet>>
retry == <<maxRetries, retryI, err, backoff, attempts, retpc, ret>>
framework == <<runner, workerCount, BeforeJob, AfterJob, PanicHandler, rpc, runErr,
               tasks, taskTotal, Tasks, qmu, metrics, mu, pool, spawned, wg, wpc,
               task, got, calls, result, hooks, hookResult, handled, reported, snap>>

ErrWorkers == "number of workers must be greater than zero"
ErrAllFailed == "all tasks failed"
ErrBeforeJob == "beforeJob error"
ErrGetTasks == "getTasks error"
Panicked == "panic"

(***************************************************************************)
(* sync.Mutex                                                              *)
(***************************************************************************)
\* A lock that excludes nobody.
LockNoExclusion(m) == TRUE

\* Lock() returns only when nobody holds the mutex.
CanLock(m) == m = {}

\* An Unlock that is left out: the caller keeps the mutex.
UnlockForgotten(m, w) == m

\* Unlock() by the holder w
Unlock(m, w) == m \ {w}

(***************************************************************************)
(* taskQueue                                                               *)
(***************************************************************************)
\* An Add that puts the task in front.
QueueAddAtHead(q, t) == <<t>> \o q

\* Add(task): q.Tasks = append(q.Tasks, task)
QueueAdd(q, t) == Append(q, t)

\* A dequeue that drops the task behind the head as well.
QueueRestDropsTwo(q) == SubSeq(q, 3, Len(q))

\* A dequeue that puts the head back at the tail.
QueueRestRequeues(q) == Append(SubSeq(q, 2, Len(q)), Head(q))

\* q.Tasks[1:]
QueueRest(q) == SubSeq(q, 2, Len(q))

\* A dequeue that also gives up once the context is cancelled.
QueueEmptyOrCancelled(q) == Len(q) = 0 \/ ctxDone

\* len(q.Tasks) == 0: the only reason GetTask returns nil
QueueEmpty(q) == Len(q) = 0

(***************************************************************************)
(* MetricsCollector                                                        *)
(***************************************************************************)
NewMetricsCollector == [taskTotal |-> 0, taskSuccess |-> 0, taskFailed |-> 0]

\* A total that is never stored.
SetTaskTotalForgotten(m, total) == m

SetTaskTotal(m, total) == [m EXCEPT !.taskTotal = total]

\* A success that is also added to the total.
IncTaskSuccessAlsoTotal(m) == [m EXCEPT !.taskSuccess = @ + 1, !.taskTotal = @ + 1]

IncTaskSuccess(m) == [m EXCEPT !.taskSuccess = @ + 1]

\* A failure counted in the wrong counter.
IncTaskFailedAsSuccess(m) == [m EXCEPT !.taskSuccess = @ + 1]

IncTaskFailed(m) == [m EXCEPT !.taskFailed = @ + 1]

\* A snapshot that copies the total only and leaves the two counts at zero.
SnapshotWithoutCounts(m) ==
    [taskTotal |-> m.taskTotal, taskSuccess |-> 0, taskFailed |-> 0]

\* Snapshot(): the copy of the three counters made while holding m.mu.
Snapshot(m) ==
    [taskTotal |-> m.taskTotal, taskSuccess |-> m.taskSuccess,
     taskFailed |-> m.taskFailed]

(***************************************************************************)
(* Initial state: a caller about to invoke Run.                            *)
(***************************************************************************)
\* PullSecretJob.GetTasks has not been called.
NoPullSecretJob ==
    /\ env = [GCP_PROJECT_ID |-> "", CLUSTER_ID |-> "", SECRET_NAME |-> "",
              PULL_SECRET_DATA |-> ""]
    /\ DryRun = FALSE
    /\ jobTasks = <<>>
    /\ jobErr = "none"

\* PullSecretTask.Process has not been called.
NoProcess ==
    /\ ppc = "idle"
    /\ procErr = "none"
    /\ client = "none"
    /\ fpc = "none"
    /\ exists = FALSE
    /\ ops = <<>>
    /\ apiCalls = [NewClient |-> 0, GetSecret |-> 0, CreateSecret |-> 0,
                   AddSecretVersion |-> 0, AccessSecretVersion |-> 0, Close |-> 0]
    /\ stepRet = [createOrUpdateSecret |-> "none", verifySecret |-> "none"]

\* retryWithBackoff has not been called.
NoRetry ==
    /\ maxRetries = 0
    /\ retryI = 0
    /\ err = "nil"
    /\ backoff = 0
    /\ attempts = <<>>
    /\ retpc = "idle"
    /\ ret = "none"

FrameworkInit ==
    /\ runner \in {"RunE", "jobRunner", "TestRunner"}
    /\ workerCount \in WorkerCounts
    /\ BeforeJob = "unread"
    /\ AfterJob = "unread"
    /\ PanicHandler \in BOOLEAN
    \* TestRunner passes PanicHandler: nil to the pool.
    /\ runner = "TestRunner" => ~PanicHandler
    /\ rpc = (IF runner = "RunE" THEN "RunE"
              ELSE IF runner = "jobRunner" THEN "BeforeJob" ELSE "GetTasks")
    /\ runErr = "running"
    /\ tasks = <<>>
    /\ taskTotal = 0
    /\ Tasks = <<>>
    /\ qmu = {}
    /\ metrics = NewMetricsCollector
    /\ mu = {}
    /\ pool = "idle"
    /\ spawned = 0
    /\ wg = 0
    /\ wpc = [w \in WorkerIds |-> "none"]
    /\ task = [w \in WorkerIds |-> 0]
    /\ got = [t \in TaskIds |-> 0]
    /\ calls = [t \in TaskIds |-> 0]
    /\ result = [t \in TaskIds |-> "none"]
    /\ hooks = [BeforeJob |-> 0, GetTasks |-> 0, AfterJob |-> 0, Report |-> 0]
    /\ hookResult = [BeforeJob |-> "none", GetTasks |-> "none", AfterJob |-> "none",
                     Report |-> "none"]
    /\ handled = [worker |-> 0, run |-> 0]
    /\ reported = <<>>
    /\ snap = NewMetricsCollector

Init ==
    /\ FrameworkInit
    /\ ctxDone = FALSE
    /\ NoPullSecretJob
    /\ NoProcess
    /\ NoRetry

(***************************************************************************)
(* workerPool.Run: the worker goroutines                                   *)
(***************************************************************************)
Outcomes == {"nil", "err", "panic"}

\* A worker without the deferred recover(): a panic ends the goroutine.
AfterProcessNoRecover(r) ==
    CASE r = "nil" -> "IncTaskSuccess"
      [] r = "err" -> "IncTaskFailed"
      [] r = "panic" -> "exit"

\* Where a worker goes when task.Process ends: the else branch, the
\* err != nil branch, or the deferred recover().
AfterProcess(r) ==
    CASE r = "nil" -> "IncTaskSuccess"
      [] r = "err" -> "IncTaskFailed"
      [] r = "panic" -> "recover"

\* A worker that calls the panic handler after every task.
AfterIncAlwaysHandler(p) == "PanicHandler"

\* Where a worker goes once its increment is done: the recover branch goes on
\* to the panic handler, the others leave the closure and loop.
AfterInc(p) == IF p = "recoverLocked" THEN "PanicHandler" ELSE "GetTask"

\* q.mu.Lock() in GetTask
GetTaskLock(w) ==
    /\ wpc[w] = "GetTask"
    /\ CanLock(qmu)
    /\ qmu' = qmu \cup {w}
    /\ wpc' = [wpc EXCEPT ![w] = "locked"]
    /\ UNCHANGED <<config, ctxDone, pullSecretJob, pullSecretTask, retry, rpc, runErr, tasks, taskTotal, Tasks, collector,
                   pool, spawned, wg, task, got, calls, result, hooks, hookResult, handled,
                   reported, snap>>

\* len(q.Tasks) == 0: return nil (the deferred Unlock runs), and the worker
\* returns from its loop.
GetTaskNil(w) ==
    /\ wpc[w] = "locked"
    /\ QueueEmpty(Tasks)
    /\ qmu' = Unlock(qmu, w)
    /\ task' = [task EXCEPT ![w] = 0]
    /\ wpc' = [wpc EXCEPT ![w] = "exit"]
    /\ UNCHANGED <<config, ctxDone, pullSecretJob, pullSecretTask, retry, rpc, runErr, tasks, taskTotal, Tasks, collector,
                   pool, spawned, wg, got, calls, result, hooks, hookResult, handled,
                   reported, snap>>

\* task := q.Tasks[0]
GetTaskHead(w) ==
    /\ wpc[w] = "locked"
    /\ ~QueueEmpty(Tasks)
    /\ task' = [task EXCEPT ![w] = Head(Tasks)]
    /\ wpc' = [wpc EXCEPT ![w] = "slice"]
    /\ UNCHANGED <<config, ctxDone, pullSecretJob, pullSecretTask, retry, rpc, runErr, tasks, taskTotal, queue, collector,
                   pool, spawned, wg, got, calls, result, hooks, hookResult, handled,
                   reported, snap>>

\* q.Tasks = q.Tasks[1:]; return task (the deferred Unlock runs)
GetTaskSlice(w) ==
    /\ wpc[w] = "slice"
    /\ Tasks' = QueueRest(Tasks)
    /\ qmu' = Unlock(qmu, w)
    /\ got' = [got EXCEPT ![task[w]] = @ + 1]
    /\ wpc' = [wpc EXCEPT ![w] = "Process"]
    /\ UNCHANGED <<config, ctxDone, pullSecretJob, pullSecretTask, retry, rpc, runErr, tasks, taskTotal, collector,
                   pool, spawned, wg, task, calls, result, hooks, hookResult, handled,
                   reported, snap>>

\* err := task.Process(taskCtx): the call
ProcessCall(w) ==
    /\ wpc[w] = "Process"
    /\ calls' = [calls EXCEPT ![task[w]] = @ + 1]
    /\ wpc' = [wpc EXCEPT ![w] = "inProcess"]
    /\ UNCHANGED <<config, ctxDone, pullSecretJob, pullSecretTask, retry, rpc, runErr, tasks, taskTotal, queue, collector,
                   pool, spawned, wg, task, got, result, hooks, hookResult, handled,
                   reported, snap>>

\* task.Process returns nil, returns an error, or panics
ProcessReturn(w) ==
    /\ wpc[w] = "inProcess"
    /\ \E r \in Outcomes :
          /\ result' = [result EXCEPT ![task[w]] = r]
          /\ wpc' = [wpc EXCEPT ![w] = AfterProcess(r)]
    /\ UNCHANGED <<config, ctxDone, pullSecretJob, pullSecretTask, retry, rpc, runErr, tasks, taskTotal, queue, collector,
                   pool, spawned, wg, task, got, calls, hooks, hookResult, handled,
                   reported, snap>>

\* m.mu.Lock() in IncTaskSuccess / IncTaskFailed
IncLock(w) ==
    /\ wpc[w] \in {"IncTaskSuccess", "IncTaskFailed", "recover"}
    /\ CanLock(mu)
    /\ mu' = mu \cup {w}
    /\ wpc' = [wpc EXCEPT ![w] = CASE wpc[w] = "IncTaskSuccess" -> "IncTaskSuccessLocked"
                                   [] wpc[w] = "IncTaskFailed" -> "IncTaskFailedLocked"
                                   [] wpc[w] = "recover" -> "recoverLocked"]
    /\ UNCHANGED <<config, ctxDone, pullSecretJob, pullSecretTask, retry, rpc, runErr, tasks, taskTotal, queue, metrics,
                   pool, spawned, wg, task, got, calls, result, hooks, hookResult, handled,
                   reported, snap>>

\* m.taskSuccess++; m.mu.Unlock()
IncSuccess(w) ==
    /\ wpc[w] = "IncTaskSuccessLocked"
    /\ metrics' = IncTaskSuccess(metrics)
    /\ mu' = Unlock(mu, w)
    /\ wpc' = [wpc EXCEPT ![w] = AfterInc(wpc[w])]
    /\ UNCHANGED <<config, ctxDone, pullSecretJob, pullSecretTask, retry, rpc, runErr, tasks, taskTotal, queue,
                   pool, spawned, wg, task, got, calls, result, hooks, hookResult, handled,
                   reported, snap>>

\* m.taskFailed++; m.mu.Unlock()
IncFailed(w) ==
    /\ wpc[w] \in {"IncTaskFailedLocked", "recoverLocked"}
    /\ metrics' = IncTaskFailed(metrics)
    /\ mu' = Unlock(mu, w)
    /\ wpc' = [wpc EXCEPT ![w] = AfterInc(wpc[w])]
    /\ UNCHANGED <<config, ctxDone, pullSecretJob, pullSecretTask, retry, rpc, runErr, tasks, taskTotal, queue,
                   pool, spawned, wg, task, got, calls, result, hooks, hookResult, handled,
                   reported, snap>>

\* if wp.PanicHandler != nil { wp.PanicHandler(taskCtx, err) }
WorkerPanicHandler(w) ==
    /\ wpc[w] = "PanicHandler"
    /\ handled' = IF PanicHandler THEN [handled EXCEPT !.worker = @ + 1] ELSE handled
    /\ wpc' = [wpc EXCEPT ![w] = "GetTask"]
    /\ UNCHANGED <<config, ctxDone, pullSecretJob, pullSecretTask, retry, rpc, runErr, tasks, taskTotal, queue, collector,
                   pool, spawned, wg, task, got, calls, result, hooks, hookResult,
                   reported, snap>>

\* A worker that leaves without telling the WaitGroup.
WgDoneForgotten(n) == n

\* wg.Done()
WgDone(n) == n - 1

\* defer wg.Done()
WorkerDone(w) ==
    /\ wpc[w] = "exit"
    /\ wg' = WgDone(wg)
    /\ wpc' = [wpc EXCEPT ![w] = "done"]
    /\ UNCHANGED <<config, ctxDone, pullSecretJob, pullSecretTask, retry, rpc, runErr, tasks, taskTotal, queue, collector,
                   pool, spawned, task, got, calls, result, hooks, hookResult, handled,
                   reported, snap>>

Worker(w) ==
    \/ GetTaskLock(w)
    \/ GetTaskNil(w)
    \/ GetTaskHead(w)
    \/ GetTaskSlice(w)
    \/ ProcessCall(w)
    \/ ProcessReturn(w)
    \/ IncLock(w)
    \/ IncSuccess(w)
    \/ IncFailed(w)
    \/ WorkerPanicHandler(w)
    \/ WorkerDone(w)

(***************************************************************************)
(* workerPool.Run: the calling goroutine                                   *)
(***************************************************************************)
\* A pool that never runs more than one goroutine.
MoreToSpawnOnlyOne(i, n) == i < n /\ i < 1

\* A loop that starts one goroutine too few.
MoreToSpawnButLast(i, n) == i + 1 < n

\* i < wp.Workers: the loop has goroutines left to start
MoreToSpawn(i, n) == i < n

\* for i := 0; i < wp.Workers; i++ { wg.Add(1); go func(workerId int) ... (i) }
Spawn ==
    /\ rpc = "pool"
    /\ MoreToSpawn(spawned, workerCount)
    /\ wg' = wg + 1
    /\ wpc' = [wpc EXCEPT ![spawned] = "GetTask"]
    /\ spawned' = spawned + 1
    /\ UNCHANGED <<config, ctxDone, pullSecretJob, pullSecretTask, retry, rpc, runErr, tasks, taskTotal, queue, collector,
                   pool, task, got, calls, result, hooks, hookResult, handled, reported, snap>>

\* A Wait() that does not wait.
WaitReturnsAtOnce(n) == TRUE

\* The WaitGroup lets Wait() return when its counter is zero.
WaitReturns(n) == n = 0

\* A Run that returns the error of a failed job before its after-hook and report.
AfterPoolFailFast(run) ==
    IF run = "TestRunner" \/ (metrics.taskTotal > 0 /\ metrics.taskFailed = metrics.taskTotal)
    THEN "outcome" ELSE "AfterJob"

\* What follows pool.Run(ctx): the after-hook in jobRunner.Run, the final test
\* in TestRunner.Run.
AfterPool(run) == IF run = "TestRunner" THEN "outcome" ELSE "AfterJob"

\* wg.Wait() after the loop; workerPool.Run returns to the runner.
Wait ==
    /\ rpc = "pool"
    /\ ~MoreToSpawn(spawned, workerCount)
    /\ WaitReturns(wg)
    /\ pool' = "returned"
    /\ rpc' = AfterPool(runner)
    /\ UNCHANGED <<config, ctxDone, pullSecretJob, pullSecretTask, retry, runErr, tasks, taskTotal, queue, collector,
                   spawned, wg, workers, hooks, hookResult, handled, reported, snap>>

(***************************************************************************)
(* CommandBuilder.Build (RunE), jobRunner.Run, TestRunner.Run              *)
(***************************************************************************)
\* A validation that lets a worker count of 0 through.
validateJobNegativeOnly(n) == IF n < 0 THEN ErrWorkers ELSE "nil"

\* validateJob: job.GetWorkerCount() < 1 is an error
validateJob(n) == IF n < 1 THEN ErrWorkers ELSE "nil"

\* An end of Run without the taskTotal == 0 case.
OutcomeNoEmptyCase(m) == IF m.taskFailed = m.taskTotal THEN ErrAllFailed ELSE "nil"

\* An end of Run that compares the failures with the total by > .
OutcomeOffByOne(m) ==
    IF m.taskTotal = 0 THEN "nil"
    ELSE IF m.taskFailed > m.taskTotal THEN ErrAllFailed
    ELSE "nil"

\* An end of Run that turns any failed task into the error.
OutcomeAnyFailure(m) ==
    IF m.taskTotal = 0 THEN "nil"
    ELSE IF m.taskFailed > 0 THEN ErrAllFailed
    ELSE "nil"

\* The end of jobRunner.Run: taskTotal == 0, then taskFailed == taskTotal.
Outcome(m) ==
    IF m.taskTotal = 0 THEN "nil"
    ELSE IF m.taskFailed = m.taskTotal THEN ErrAllFailed
    ELSE "nil"

\* The end of TestRunner.Run: taskFailed == taskTotal only.
TestOutcome(m) == IF m.taskFailed = m.taskTotal THEN ErrAllFailed ELSE "nil"

\* RunE: validateJob(job), then jobRunner{...}.Run(b.ctx, job, job.GetWorkerCount())
RunE ==
    /\ rpc = "RunE"
    /\ IF validateJob(workerCount) # "nil"
       THEN /\ runErr' = validateJob(workerCount)
            /\ rpc' = "done"
            /\ UNCHANGED runner
       ELSE /\ rpc' = "BeforeJob"
            /\ runner' = "jobRunner"
            /\ UNCHANGED runErr
    /\ UNCHANGED <<workerCount, BeforeJob, AfterJob, PanicHandler, ctxDone, pullSecretJob, pullSecretTask, retry, tasks, taskTotal, queue, collector, pool,
                   spawned, wg, workers, hooks, hookResult, handled, reported, snap>>

\* A Run that logs the error of BeforeJob and goes on.
AfterBeforeJobIgnoresError(r) ==
    CASE r = "nil" -> "GetTasks"
      [] r = "err" -> "GetTasks"
      [] r = "panic" -> "recover"

\* Where Run goes when BeforeJob ends: on, return err, or the deferred recover.
AfterBeforeJob(r) ==
    CASE r = "nil" -> "GetTasks"
      [] r = "err" -> "done"
      [] r = "panic" -> "recover"

\* if jr.BeforeJob != nil { err := jr.BeforeJob(ctx); if err != nil { return err } }
RunBeforeJob ==
    /\ rpc = "BeforeJob"
    /\ \E hook \in {"set", "nil"} :
          /\ BeforeJob' = hook
          /\ IF hook = "nil"
             THEN /\ rpc' = "GetTasks"
                  /\ UNCHANGED <<runErr, hooks, hookResult>>
             ELSE /\ hooks' = [hooks EXCEPT !.BeforeJob = @ + 1]
                  /\ \E r \in Outcomes :
                        /\ hookResult' = [hookResult EXCEPT !.BeforeJob = r]
                        /\ rpc' = AfterBeforeJob(r)
                        /\ runErr' = IF r = "err" THEN ErrBeforeJob ELSE runErr
    /\ UNCHANGED <<runner, workerCount, AfterJob, PanicHandler, ctxDone, pullSecretJob, pullSecretTask, retry, tasks, taskTotal, queue, collector, pool,
                   spawned, wg, workers, handled, reported, snap>>

\* A Run that goes on with no tasks when GetTasks fails.
AfterGetTasksIgnoresError(r) ==
    CASE r = "nil" -> "Add"
      [] r = "err" -> "Add"
      [] r = "panic" -> IF runner = "TestRunner" THEN "done" ELSE "recover"

\* Where Run goes when GetTasks ends: on, return err, or the panic, which
\* jobRunner.Run recovers in its deferred function and TestRunner.Run does not.
AfterGetTasks(r) ==
    CASE r = "nil" -> "Add"
      [] r = "err" -> "done"
      [] r = "panic" -> IF runner = "TestRunner" THEN "done" ELSE "recover"

\* tasks, err := job.GetTasks(); if err != nil { return err }
RunGetTasks ==
    /\ rpc = "GetTasks"
    /\ hooks' = [hooks EXCEPT !.GetTasks = @ + 1]
    /\ \E r \in Outcomes :
          /\ hookResult' = [hookResult EXCEPT !.GetTasks = r]
          /\ \E n \in (IF r = "nil" THEN 0..MaxTasks ELSE {0}) :
                tasks' = [k \in 1..n |-> k]
          /\ rpc' = AfterGetTasks(r)
          /\ runErr' = CASE r = "nil" -> runErr
                         [] r = "err" -> ErrGetTasks
                         [] r = "panic" -> IF runner = "TestRunner" THEN Panicked ELSE runErr
    /\ UNCHANGED <<config, ctxDone, pullSecretJob, pullSecretTask, retry, taskTotal, queue, collector, pool,
                   spawned, wg, workers, handled, reported, snap>>

\* A loop that stops one task early.
MoreToAddButLast(n, ts) == n + 1 < Len(ts)

\* range tasks: n of the tasks ts were visited, some are left
MoreToAdd(n, ts) == n < Len(ts)

\* for _, task := range tasks { taskQueue.Add(task); taskTotal += 1 }
RunAdd ==
    /\ rpc = "Add"
    /\ MoreToAdd(taskTotal, tasks)
    /\ Tasks' = QueueAdd(Tasks, tasks[taskTotal + 1])
    /\ taskTotal' = taskTotal + 1
    /\ UNCHANGED <<config, ctxDone, pullSecretJob, pullSecretTask, retry, rpc, runErr, tasks, qmu, collector, pool,
                   spawned, wg, workers, hooks, hookResult, handled, reported, snap>>

\* metricsCollector := NewMetricsCollector(...); metricsCollector.SetTaskTotal(uint32(taskTotal));
\* pool := workerPool{...}; pool.Run(ctx) is entered.
RunSetTaskTotal ==
    /\ rpc = "Add"
    /\ ~MoreToAdd(taskTotal, tasks)
    /\ metrics' = SetTaskTotal(NewMetricsCollector, taskTotal)
    /\ rpc' = "pool"
    /\ pool' = "running"
    /\ UNCHANGED <<config, ctxDone, pullSecretJob, pullSecretTask, retry, runErr, tasks, taskTotal, queue, mu,
                   spawned, wg, workers, hooks, hookResult, handled, reported, snap>>

\* if jr.AfterJob != nil { jr.AfterJob(ctx) }
RunAfterJob ==
    /\ rpc = "AfterJob"
    /\ \E hook \in {"set", "nil"} :
          /\ AfterJob' = hook
          /\ IF hook = "nil"
             THEN /\ rpc' = "Report"
                  /\ UNCHANGED <<hooks, hookResult>>
             ELSE /\ hooks' = [hooks EXCEPT !.AfterJob = @ + 1]
                  /\ \E r \in {"nil", "panic"} :
                        /\ hookResult' = [hookResult EXCEPT !.AfterJob = r]
                        /\ rpc' = IF r = "nil" THEN "Report" ELSE "recover"
    /\ UNCHANGED <<runner, workerCount, BeforeJob, PanicHandler, ctxDone, pullSecretJob, pullSecretTask, retry, runErr, tasks, taskTotal, queue, collector, pool,
                   spawned, wg, workers, handled, reported, snap>>

\* jr.MetricsReporter.Report(metricsCollector): StdoutReporter takes one Snapshot()
RunReport ==
    /\ rpc = "Report"
    /\ CanLock(mu)
    /\ hooks' = [hooks EXCEPT !.Report = @ + 1]
    /\ \/ /\ reported' = Append(reported, Snapshot(metrics))
          /\ hookResult' = [hookResult EXCEPT !.Report = "nil"]
          /\ rpc' = "outcome"
       \/ /\ hookResult' = [hookResult EXCEPT !.Report = "panic"]
          /\ rpc' = "recover"
          /\ UNCHANGED reported
    /\ UNCHANGED <<config, ctxDone, pullSecretJob, pullSecretTask, retry, runErr, tasks, taskTotal, queue, collector, pool,
                   spawned, wg, workers, handled, snap>>

\* The two ifs at the end of Run.
RunOutcome ==
    /\ rpc = "outcome"
    /\ runErr' = IF runner = "TestRunner" THEN TestOutcome(metrics) ELSE Outcome(metrics)
    /\ rpc' = "done"
    /\ UNCHANGED <<config, ctxDone, pullSecretJob, pullSecretTask, retry, tasks, taskTotal, queue, collector, pool,
                   spawned, wg, workers, hooks, hookResult, handled, reported, snap>>

\* A deferred function that swallows the panic: Run returns nil.
RecoverSwallows == "nil"

\* panic(err) at the end of the deferred function: the caller sees the panic.
Repanic == Panicked

\* The deferred function of jobRunner.Run: recover(), the panic handler if set, panic(err).
RunRecover ==
    /\ rpc = "recover"
    /\ handled' = IF PanicHandler THEN [handled EXCEPT !.run = @ + 1] ELSE handled
    /\ runErr' = Repanic
    /\ rpc' = "done"
    /\ UNCHANGED <<config, ctxDone, pullSecretJob, pullSecretTask, retry, tasks, taskTotal, queue, collector, pool,
                   spawned, wg, workers, hooks, hookResult, reported, snap>>

Runner ==
    \/ RunE
    \/ RunBeforeJob
    \/ RunGetTasks
    \/ RunAdd
    \/ RunSetTaskTotal
    \/ Spawn
    \/ Wait
    \/ RunAfterJob
    \/ RunReport
    \/ RunOutcome
    \/ RunRecover

(***************************************************************************)
(* The environment                                                         *)
(***************************************************************************)
\* The caller cancels the context handed to Run.
Cancel ==
    /\ ~ctxDone
    /\ rpc # "done"
    /\ ctxDone' = TRUE
    /\ UNCHANGED <<pullSecretJob, pullSecretTask, retry, config, rpc, runErr, tasks, taskTotal, queue, collector, pool,
                   spawned, wg, workers, hooks, hookResult, handled, reported, snap>>

\* Another goroutine calls Snapshot() while the pool runs: m.mu.Lock(), the copy,
\* the deferred Unlock.
ObserverSnapshot ==
    /\ pool = "running"
    /\ CanLock(mu)
    /\ snap' = Snapshot(metrics)
    /\ UNCHANGED <<config, ctxDone, pullSecretJob, pullSecretTask, retry, rpc, runErr, tasks, taskTotal, queue, collector,
                   pool, spawned, wg, workers, hooks, hookResult, handled, reported>>

Next ==
    \/ Runner
    \/ \E w \in WorkerIds : Worker(w)
    \/ Cancel

Spec == Init /\ [][Next]_vars

\* The same program with a goroutine that takes snapshots during the pool run.
NextObserved ==
    \/ Next
    \/ ObserverSnapshot

SpecObserved == Init /\ [][NextObserved]_vars

\* The steps of the program itself.  The Go scheduler runs a goroutine that can
\* run, and (the assumption of the liveness claim) a Process call that was made
\* ends: the program does not stop while the runner or some worker can take a
\* step.  No step of Progress reads ctxDone, so the caller's Cancel is left to
\* Spec.
Progress ==
    \/ Runner
    \/ \E w \in WorkerIds : Worker(w)

FairSpec == Init /\ [][Progress]_vars /\ WF_vars(Progress)

(***************************************************************************)
(* retryWithBackoff and isRetryable (the pull-secret job), called on their *)
(* own with any fn, any maxRetries and a context that may be cancelled.    *)
(***************************************************************************)
\* google.golang.org/grpc/codes
Codes ==
    {"OK", "Canceled", "Unknown", "InvalidArgument", "DeadlineExceeded", "NotFound",
     "AlreadyExists", "PermissionDenied", "ResourceExhausted", "FailedPrecondition",
     "Aborted", "OutOfRange", "Unimplemented", "Internal", "Unavailable", "DataLoss",
     "Unauthenticated"}

\* The values of type error seen by retryWithBackoff: nil, a gRPC status error
\* (named by its code; status.Error(codes.OK, ...) is nil), an error that
\* carries no gRPC status, and ctx.Err() of a cancelled context.
ErrPlain == "error"
ErrCanceled == "context canceled"
Errors == {"nil", ErrPlain, ErrCanceled} \cup (Codes \ {"OK"})

\* fmt.Errorf(msg + ": %w", err)
Wrap(msg, e) == msg \o ": " \o e

\* The chains of messages PullSecretTask wraps around the error of an API call.
Wrappings ==
    {"failed to create secretmanager client: ",
     "failed to check secret existence: ",
     "failed to create secret: failed to create secret: ",
     "failed to add secret version: failed to add secret version: ",
     "failed to access secret version: "}

\* status.Code(err): OK for nil, the code of a status error, also of one that
\* was wrapped with %w (status.FromError unwraps), Unknown otherwise
StatusCode(e) ==
    IF e = "nil" THEN "OK"
    ELSE IF e \in Codes THEN e
    ELSE IF \E w \in Wrappings, c \in Codes : e = w \o c
    THEN CHOOSE c \in Codes : \E w \in Wrappings : e = w \o c
    ELSE "Unknown"

\* A test that leaves out codes.Internal.
isRetryableWithoutInternal(e) ==
    StatusCode(e) \in {"Unavailable", "DeadlineExceeded", "ResourceExhausted"}

isRetryable(e) ==
    StatusCode(e) \in {"Unavailable", "DeadlineExceeded", "Internal", "ResourceExhausted"}

\* A loop that makes one attempt more than maxRetries.
MoreRetriesOneMore(n, max) == n <= max

\* i < maxRetries
MoreRetries(n, max) == n < max

\* A loop that tests isRetryable before err == nil, and so retries a success.
AfterFnRetriesSuccess(e, n, max) ==
    IF e # "nil" /\ ~isRetryable(e) THEN "return"
    ELSE IF n < max - 1 THEN "select"
    ELSE "for"

\* A loop that retries every error.
AfterFnRetriesAnyError(e, n, max) ==
    IF e = "nil" THEN "return"
    ELSE IF n < max - 1 THEN "select"
    ELSE "for"

\* What follows err = fn() in iteration n: return nil, return err, the backoff
\* select, or (last iteration) the loop's next test.
AfterFn(e, n, max) ==
    IF e = "nil" THEN "return"
    ELSE IF ~isRetryable(e) THEN "return"
    ELSE IF n < max - 1 THEN "select"
    ELSE "for"

\* rand.Float64()*2 - 1 lies in [-1, 1): the jitter in percent of the base
\* backoff, at both ends of its range and in the middle.
Jitters == {0 - 20, 0, 19}

\* 1 << uint(i)
Shift(n) == 2 ^ n

\* baseBackoff + jitter, in milliseconds
Backoff(n, j) == Shift(n) * 1000 + (Shift(n) * 1000 * j) \div 100

\* A select without the ctx.Done() case.
CtxDoneReadyNever(done) == FALSE

\* case <-ctx.Done(): ready as soon as the context is cancelled
CtxDoneReady(done) == done

\* A caller about to run retryWithBackoff(ctx, fn, maxRetries); the context may
\* be cancelled already.
RetryInit ==
    /\ FrameworkInit
    /\ runner = "jobRunner"
    /\ workerCount = 1
    /\ ~PanicHandler
    /\ NoPullSecretJob
    /\ NoProcess
    /\ ctxDone \in BOOLEAN
    /\ maxRetries \in RetryCounts
    /\ retryI = 0
    /\ err = "nil"
    /\ backoff = 0
    /\ attempts = <<>>
    /\ retpc = "for"
    /\ ret = "none"

\* for i := 0; i < maxRetries; i++ { err = fn() ... }: the test; the call of fn
\* when it holds, "return err" after the loop when it does not
RetryFor ==
    /\ retpc = "for"
    /\ IF MoreRetries(retryI, maxRetries)
       THEN /\ retpc' = "fn"
            /\ UNCHANGED ret
       ELSE /\ ret' = err
            /\ retpc' = "done"
    /\ UNCHANGED <<framework, ctxDone, pullSecretJob, pullSecretTask, maxRetries, retryI, err, backoff,
                   attempts>>

\* err = fn() has returned e; if err == nil { return nil };
\* if !isRetryable(err) { return err }; if i < maxRetries-1 { backoff := ... }
FnReturns(e) ==
    /\ err' = e
    /\ attempts' = Append(attempts, e)
    /\ CASE AfterFn(e, retryI, maxRetries) = "return" ->
              /\ ret' = e
              /\ retpc' = "done"
              /\ UNCHANGED <<retryI, backoff>>
         [] AfterFn(e, retryI, maxRetries) = "select" ->
              /\ \E j \in Jitters : backoff' = Backoff(retryI, j)
              /\ retpc' = "select"
              /\ UNCHANGED <<retryI, ret>>
         [] AfterFn(e, retryI, maxRetries) = "for" ->
              /\ retryI' = retryI + 1
              /\ retpc' = "for"
              /\ UNCHANGED <<backoff, ret>>

\* The call of fn, for any fn: it returns nil or an error.
RetryFn ==
    /\ retpc = "fn"
    /\ \E e \in Errors \ {ErrCanceled} : FnReturns(e)
    /\ UNCHANGED <<framework, ctxDone, pullSecretJob, pullSecretTask, maxRetries>>

\* case <-ctx.Done(): return ctx.Err()
RetryCtxDone ==
    /\ retpc = "select"
    /\ CtxDoneReady(ctxDone)
    /\ ret' = ErrCanceled
    /\ backoff' = 0
    /\ retpc' = "done"
    /\ UNCHANGED <<framework, ctxDone, pullSecretJob, pullSecretTask, maxRetries, retryI, err, attempts>>

\* case <-time.After(backoff): the timer fires while the context is not
\* cancelled (the select takes the case that becomes ready first, and the timer,
\* of 0.8 s at least, is not ready when the select is entered); then i++
RetryTimer ==
    /\ retpc = "select"
    /\ ~CtxDoneReady(ctxDone)
    /\ backoff' = 0
    /\ retryI' = retryI + 1
    /\ retpc' = "for"
    /\ UNCHANGED <<framework, ctxDone, pullSecretJob, pullSecretTask, maxRetries, err, attempts, ret>>

\* The caller's cancel() while retryWithBackoff runs.
RetryCancel ==
    /\ retpc \in {"for", "fn", "select"}
    /\ ~ctxDone
    /\ ctxDone' = TRUE
    /\ UNCHANGED <<framework, pullSecretJob, pullSecretTask, retry>>

RetryNext ==
    \/ RetryFor
    \/ RetryFn
    \/ RetryCtxDone
    \/ RetryTimer
    \/ RetryCancel

RetrySpec == RetryInit /\ [][RetryNext]_vars

(***************************************************************************)
(* PullSecretJob.GetTasks                                                  *)
(***************************************************************************)
\* The fake pull secret of the const block (its four registries, abridged).
defaultPullSecretData ==
    "{auths:{cloud.openshift.com,quay.io,registry.connect.redhat.com,registry.redhat.io}}"

\* Values of the four environment variables; "" is what os.Getenv returns for a
\* variable that is not set.
ProjectIds == {"", "test-project"}
ClusterIds == {"", "cls-123", "cls-456"}
SecretNames == {"", "my-secret"}
PullSecrets == {"", "{auths:{quay.io}}", "not json", "{}", "{auths:{}}"}

\* if pullSecretData == "" { pullSecretData = defaultPullSecretData }
PullSecretData(data) == IF data = "" THEN defaultPullSecretData ELSE data

\* if secretName == "" && clusterID != "" { secretName = fmt.Sprintf(...) }
SecretName(name, clusterID) ==
    IF name = "" /\ clusterID # ""
    THEN "hyperfleet-" \o clusterID \o "-pull-secret"
    ELSE name

\* The one PullSecretTask GetTasks builds.
PullSecretTask(e, dry) ==
    [PullSecret |-> PullSecretData(e.PULL_SECRET_DATA),
     GCPProjectID |-> e.GCP_PROJECT_ID,
     ClusterID |-> e.CLUSTER_ID,
     SecretName |-> SecretName(e.SECRET_NAME, e.CLUSTER_ID),
     DryRun |-> dry]

\* A process about to call GetTasks of a PullSecretJob, with any environment.
PullSecretInit ==
    /\ FrameworkInit
    /\ runner = "jobRunner"
    /\ workerCount = 1
    /\ ~PanicHandler
    /\ ctxDone = FALSE
    /\ NoRetry
    /\ NoProcess
    /\ env \in [GCP_PROJECT_ID : ProjectIds, CLUSTER_ID : ClusterIds,
                 SECRET_NAME : SecretNames, PULL_SECRET_DATA : PullSecrets]
    /\ DryRun \in BOOLEAN
    /\ jobTasks = <<>>
    /\ jobErr = "none"

\* func (pullsecretJob *PullSecretJob) GetTasks() ([]job.Task, error): always
\* "return tasks, nil"
PullSecretJobGetTasks ==
    /\ jobErr = "none"
    /\ jobTasks' = Append(jobTasks, PullSecretTask(env, DryRun))
    /\ jobErr' = "nil"
    /\ UNCHANGED <<framework, ctxDone, retry, env, DryRun, pullSecretTask>>

\* The receiver e of Process: the task the worker processes.
receiver == jobTasks[1]

\* A validateConfig that does not look at GCPProjectID.
validateConfigSkipsProject(t) ==
    IF t.ClusterID = "" THEN "missing required environment variable: CLUSTER_ID"
    ELSE IF t.SecretName = "" THEN "missing required environment variable: SECRET_NAME"
    ELSE IF t.PullSecret = "" THEN "missing required environment variable: PULL_SECRET_DATA"
    ELSE "nil"

\* func (e PullSecretTask) validateConfig() error
validateConfig(t) ==
    IF t.GCPProjectID = "" THEN "missing required environment variable: GCP_PROJECT_ID"
    ELSE IF t.ClusterID = "" THEN "missing required environment variable: CLUSTER_ID"
    ELSE IF t.SecretName = "" THEN "missing required environment variable: SECRET_NAME"
    ELSE IF t.PullSecret = "" THEN "missing required environment variable: PULL_SECRET_DATA"
    ELSE "nil"

\* The documents json.Unmarshal accepts as a map, with their "auths" member:
\* "absent", "empty" (or not an object), or "nonempty".
JsonObjects ==
    [x \in {defaultPullSecretData, "{auths:{quay.io}}"} |-> "nonempty"] @@
    ("{}" :> "absent") @@ ("{auths:{}}" :> "empty")

\* func validatePullSecret(pullSecretJSON string) error
validatePullSecret(data) ==
    IF data \notin DOMAIN JsonObjects THEN "invalid JSON: syntax error"
    ELSE IF JsonObjects[data] = "absent" THEN "missing 'auths' key"
    ELSE IF JsonObjects[data] = "empty" THEN "'auths' must be a non-empty object"
    ELSE "nil"

\* What a call of the Secret Manager API returns as its error: nil, a status
\* error, or an error without a status.
ApiResults == {"nil", "NotFound", "PermissionDenied", "Unavailable", ErrPlain}

\* The count Process passes to retryWithBackoff, both times.
ProcessRetries == 3

\* One more call of the API operation op.
Called(op) == [apiCalls EXCEPT ![op] = @ + 1]

\* The deferred client.Close() on a return of Process.
Close ==
    /\ client' = "closed"

\* e.validateConfig() at the top of Process
ProcessValidateConfig ==
    /\ ppc = "idle"
    /\ jobErr = "nil"
    /\ IF validateConfig(receiver) # "nil"
       THEN procErr' = validateConfig(receiver) /\ ppc' = "done"
       ELSE procErr' = procErr /\ ppc' = "validatePullSecret"
    /\ UNCHANGED <<framework, ctxDone, pullSecretJob, retry, client, fpc, exists, ops,
                   apiCalls, stepRet>>

\* validatePullSecret(e.PullSecret)
ProcessValidatePullSecret ==
    /\ ppc = "validatePullSecret"
    /\ IF validatePullSecret(receiver.PullSecret) # "nil"
       THEN /\ procErr' = Wrap("invalid pull secret format", validatePullSecret(receiver.PullSecret))
            /\ ppc' = "done"
       ELSE procErr' = procErr /\ ppc' = "NewClient"
    /\ UNCHANGED <<framework, ctxDone, pullSecretJob, retry, client, fpc, exists, ops,
                   apiCalls, stepRet>>

\* client, err := secretmanager.NewClient(ctx)
ProcessNewClient ==
    /\ ppc = "NewClient"
    /\ apiCalls' = Called("NewClient")
    /\ \E r \in ApiResults :
         IF r # "nil"
         THEN /\ procErr' = Wrap("failed to create secretmanager client", r)
              /\ ppc' = "done"
              /\ client' = client
         ELSE /\ client' = "open"
              /\ ppc' = "DryRun"
              /\ procErr' = procErr
    /\ UNCHANGED <<framework, ctxDone, pullSecretJob, retry, fpc, exists, ops, stepRet>>

\* A Process that does not look at DryRun after the client is there.
AfterNewClientIgnoresDryRun(dry) == "retryWithBackoff"

\* if e.DryRun { ...; return nil }, else on to the first retryWithBackoff
AfterNewClient(dry) == IF dry THEN "return" ELSE "retryWithBackoff"

\* The entry of retryWithBackoff(ctx, fn, n).
RetryCall(n) ==
    /\ maxRetries' = n
    /\ retryI' = 0
    /\ err' = "nil"
    /\ backoff' = 0
    /\ attempts' = <<>>
    /\ retpc' = "for"
    /\ ret' = "none"

\* The test of e.DryRun after "client-initialized".
ProcessDryRun ==
    /\ ppc = "DryRun"
    /\ IF AfterNewClient(receiver.DryRun) = "return"
       THEN /\ procErr' = "nil"
            /\ ppc' = "done"
            /\ Close
            /\ apiCalls' = Called("Close")
            /\ UNCHANGED retry
       ELSE /\ ppc' = "createOrUpdateSecret"
            /\ RetryCall(ProcessRetries)
            /\ UNCHANGED <<procErr, client, apiCalls>>
    /\ UNCHANGED <<framework, ctxDone, pullSecretJob, fpc, exists, ops, stepRet>>

\* A createOrUpdateSecret that takes every error of GetSecret for NotFound.
AfterSecretExistsAnyErrorIsNotFound(r) ==
    IF r = "nil" THEN "addSecretVersion" ELSE "createSecret"

\* A createOrUpdateSecret that adds a version whatever GetSecret returned.
AfterSecretExistsAlwaysAdds(r) ==
    IF r = "NotFound" THEN "createSecret" ELSE "addSecretVersion"

\* secretExists and the tests of createOrUpdateSecret on its results: where
\* the function goes when client.GetSecret returned r.
AfterSecretExists(r) ==
    IF r = "nil" THEN "addSecretVersion"
    ELSE IF StatusCode(r) = "NotFound" THEN "createSecret"
    ELSE "return"

\* A createOrUpdateSecret that goes on after a failed createSecret.
AfterCreateSecretIgnoresError(r) == "addSecretVersion"

\* if createErr := e.createSecret(ctx, client); createErr != nil { return ... }
AfterCreateSecret(r) == IF r = "nil" THEN "addSecretVersion" ELSE "return"

\* fn of the first retryWithBackoff is entered: createOrUpdateSecret calls
\* e.secretExists, which calls client.GetSecret.
SecretExists ==
    /\ ppc = "createOrUpdateSecret"
    /\ retpc = "fn"
    /\ fpc = "none"
    /\ apiCalls' = Called("GetSecret")
    /\ \E r \in ApiResults :
         /\ ops' = <<[op |-> "GetSecret", res |-> r]>>
         /\ exists' = (r = "nil")
         /\ IF AfterSecretExists(r) = "return"
            THEN /\ FnReturns(Wrap("failed to check secret existence", r))
                 /\ fpc' = "none"
            ELSE /\ fpc' = AfterSecretExists(r)
                 /\ UNCHANGED <<retryI, err, backoff, attempts, retpc, ret>>
    /\ UNCHANGED <<framework, ctxDone, pullSecretJob, maxRetries, ppc, procErr, client,
                   stepRet>>

\* if !exists { e.createSecret(ctx, client) }, which calls client.CreateSecret
CreateSecret ==
    /\ fpc = "createSecret"
    /\ apiCalls' = Called("CreateSecret")
    /\ \E r \in ApiResults :
         /\ ops' = Append(ops, [op |-> "CreateSecret", res |-> r])
         /\ IF AfterCreateSecret(r) = "return"
            THEN /\ FnReturns(Wrap("failed to create secret",
                                   Wrap("failed to create secret", r)))
                 /\ fpc' = "none"
            ELSE /\ fpc' = "addSecretVersion"
                 /\ UNCHANGED <<retryI, err, backoff, attempts, retpc, ret>>
    /\ UNCHANGED <<framework, ctxDone, pullSecretJob, maxRetries, ppc, procErr, client,
                   exists, stepRet>>

\* e.addSecretVersion(ctx, client), which calls client.AddSecretVersion, and
\* the return of createOrUpdateSecret
AddSecretVersion ==
    /\ fpc = "addSecretVersion"
    /\ apiCalls' = Called("AddSecretVersion")
    /\ \E r \in ApiResults :
         /\ ops' = Append(ops, [op |-> "AddSecretVersion", res |-> r])
         /\ IF r = "nil"
            THEN FnReturns("nil")
            ELSE FnReturns(Wrap("failed to add secret version",
                                Wrap("failed to add secret version", r)))
    /\ fpc' = "none"
    /\ UNCHANGED <<framework, ctxDone, pullSecretJob, maxRetries, ppc, procErr, client,
                   exists, stepRet>>

\* fn of the second retryWithBackoff: e.verifySecret(ctx, client), which calls
\* client.AccessSecretVersion
VerifySecret ==
    /\ ppc = "verifySecret"
    /\ retpc = "fn"
    /\ apiCalls' = Called("AccessSecretVersion")
    /\ \E r \in ApiResults :
         /\ ops' = <<[op |-> "AccessSecretVersion", res |-> r]>>
         /\ IF r = "nil"
            THEN FnReturns("nil")
            ELSE FnReturns(Wrap("failed to access secret version", r))
    /\ UNCHANGED <<framework, ctxDone, pullSecretJob, maxRetries, ppc, procErr, client,
                   fpc, exists, stepRet>>

\* A Process that verifies whatever the first retryWithBackoff returned.
AfterCreateOrUpdateIgnoresError(r) == "retryWithBackoff"

\* if err := retryWithBackoff(...createOrUpdateSecret...); err != nil { return err }
AfterCreateOrUpdate(r) == IF r # "nil" THEN "return" ELSE "retryWithBackoff"

\* The first retryWithBackoff has returned.
ProcessAfterCreateOrUpdate ==
    /\ ppc = "createOrUpdateSecret"
    /\ retpc = "done"
    /\ stepRet' = [stepRet EXCEPT !.createOrUpdateSecret = ret]
    /\ IF AfterCreateOrUpdate(ret) = "return"
       THEN /\ procErr' = ret
            /\ ppc' = "done"
            /\ Close
            /\ apiCalls' = Called("Close")
            /\ UNCHANGED retry
       ELSE /\ ppc' = "verifySecret"
            /\ RetryCall(ProcessRetries)
            /\ UNCHANGED <<procErr, client, apiCalls>>
    /\ UNCHANGED <<framework, ctxDone, pullSecretJob, fpc, exists, ops>>

\* The second retryWithBackoff has returned: return err, or return nil.
ProcessAfterVerify ==
    /\ ppc = "verifySecret"
    /\ retpc = "done"
    /\ stepRet' = [stepRet EXCEPT !.verifySecret = ret]
    /\ procErr' = ret
    /\ ppc' = "done"
    /\ Close
    /\ apiCalls' = Called("Close")
    /\ UNCHANGED <<framework, ctxDone, pullSecretJob, retry, fpc, exists, ops>>

PullSecretNext ==
    \/ PullSecretJobGetTasks
    \/ ProcessValidateConfig
    \/ ProcessValidatePullSecret
    \/ ProcessNewClient
    \/ ProcessDryRun
    \/ RetryFor
    \/ SecretExists
    \/ CreateSecret
    \/ AddSecretVersion
    \/ VerifySecret
    \/ RetryCtxDone
    \/ RetryTimer
    \/ RetryCancel
    \/ ProcessAfterCreateOrUpdate
    \/ ProcessAfterVerify

PullSecretSpec == PullSecretInit /\ [][PullSecretNext]_vars

(***************************************************************************)
(* Properties                                                              *)
(***************************************************************************)
\* T: the number of tasks GetTasks returned
T == Len(tasks)
Queued == 1..T
Returned == rpc = "done" /\ runErr # Panicked
WithResult(rs) == {t \in Queued : result[t] \in rs}
PendingSuccess == {w \in WorkerIds : wpc[w] \in {"IncTaskSuccess", "IncTaskSuccessLocked"}}
PendingFailed ==
    {w \in WorkerIds : wpc[w] \in {"IncTaskFailed", "IncTaskFailedLocked",
                                   "recover", "recoverLocked"}}
Consistent(m) == m.taskSuccess + m.taskFailed <= m.taskTotal

\* C1: GetTask never returns a task twice (to the same or to another caller),
\* it returns nothing that was not queued, and when a pool of W >= 1 workers has
\* returned, each of the T queued tasks was returned exactly once.
C1_EachTaskDequeuedOnce ==
    /\ \A t \in TaskIds : got[t] <= 1
    /\ \A t \in TaskIds \ Queued : got[t] = 0
    /\ \A v, w \in WorkerIds :
          (v # w /\ wpc[v] \in {"Process", "inProcess"} /\ wpc[w] \in {"Process", "inProcess"})
             => task[v] # task[w]
    /\ (pool = "returned" /\ workerCount >= 1) => \A t \in Queued : got[t] = 1

\* Two workers hold the two tasks they were handed by concurrent GetTask calls.
C1_Witness ==
    /\ workerCount >= 2
    /\ wpc[0] = "inProcess" /\ wpc[1] = "inProcess"
    /\ task[0] # task[1]
    /\ got[task[0]] = 1 /\ got[task[1]] = 1

\* C2: a panic in a task's Process is contained in its worker: the worker counts
\* a failure and loops, so it never exits while tasks are queued, and when the
\* pool (W >= 1) has returned every queued task has run to its end, whatever
\* number of them panicked, each panic counted in task_failed.
C2_PanicIsolation ==
    /\ \A w \in WorkerIds : wpc[w] \in {"exit", "done"} => Len(Tasks) = 0
    /\ \A w \in WorkerIds :
          wpc[w] \in {"recover", "recoverLocked", "PanicHandler"} => result[task[w]] = "panic"
    /\ (pool = "returned" /\ workerCount >= 1) =>
          /\ \A t \in Queued : result[t] # "none"
          /\ metrics.taskFailed >= Cardinality(WithResult({"panic"}))

\* One worker, two tasks, the first panicked: the same worker ran the second.
C2_Witness ==
    /\ pool = "returned"
    /\ workerCount = 1
    /\ T = 2
    /\ result[1] = "panic"
    /\ result[2] = "nil"
    /\ metrics.taskFailed = 1

\* C3: every task whose Process has ended is counted exactly once, in
\* task_success if it returned nil and in task_failed if it returned an error
\* or panicked (a worker between the end of Process and its increment is the
\* only difference); after the pool (W >= 1) returned the counters equal the
\* numbers of such tasks.
C3_OneIncrementPerTask ==
    /\ metrics.taskSuccess + Cardinality(PendingSuccess) = Cardinality(WithResult({"nil"}))
    /\ metrics.taskFailed + Cardinality(PendingFailed) = Cardinality(WithResult({"err", "panic"}))
    /\ (pool = "returned" /\ workerCount >= 1) =>
          /\ metrics.taskSuccess = Cardinality(WithResult({"nil"}))
          /\ metrics.taskFailed = Cardinality(WithResult({"err", "panic"}))

\* One task returned nil and one did not, and the pool has returned.
C3_Witness ==
    /\ pool = "returned"
    /\ workerCount >= 1
    /\ T = 2
    /\ result[1] = "err"
    /\ result[2] = "nil"
    /\ metrics.taskSuccess = 1
    /\ metrics.taskFailed = 1

\* C4: task_success + task_failed <= task_total in every state, in every
\* snapshot a concurrent observer takes while the workers increment, and in
\* every snapshot the reporter consumes.
C4_CountersWithinTotal ==
    /\ Consistent(metrics)
    /\ Consistent(snap)
    /\ \A k \in 1..Len(reported) : Consistent(reported[k])

\* The observer's snapshot saw one increment of two, while a worker is about
\* to increment and another task is still running or counted.
C4_Witness ==
    /\ pool = "running"
    /\ snap.taskTotal = 2
    /\ snap.taskSuccess + snap.taskFailed = 1
    /\ PendingSuccess \cup PendingFailed # {}

\* C5 as stated: once workerPool.Run has returned, task_success + task_failed
\* equals task_total.  Run accepts a workerCount below 1 (only RunE validates
\* it), and a pool of no workers returns with every task still queued.
C5_AllCountedAfterPool ==
    pool = "returned" => metrics.taskSuccess + metrics.taskFailed = metrics.taskTotal

\* C6: when workerPool.Run (W >= 1) has returned, all W workers were started
\* and have exited, the queue is empty, no task is inside Process and nobody
\* holds a mutex.
C6_RunWaitsForWorkers ==
    (pool = "returned" /\ workerCount >= 1) =>
        /\ spawned = workerCount
        /\ wg = 0
        /\ \A w \in WorkerIds : wpc[w] = (IF w < workerCount THEN "done" ELSE "none")
        /\ Len(Tasks) = 0
        /\ \A t \in Queued : calls[t] = 1 /\ result[t] # "none"
        /\ qmu = {} /\ mu = {}

\* The pool of two workers has returned after two tasks.
C6_Witness ==
    /\ pool = "returned"
    /\ workerCount = 2
    /\ T = 2
    /\ wpc[0] = "done" /\ wpc[1] = "done"

\* C7: a pool run of W >= 1 workers that has started eventually completes (every
\* worker has exited and Run has returned), provided the runner and the workers
\* keep being scheduled and every Process call ends (FairSpec).
C7_PoolRunCompletes ==
    (pool = "running" /\ workerCount >= 1) ~>
        (pool = "returned" /\ \A w \in WorkerIds : w < workerCount => wpc[w] = "done")

\* A pool run that completed although one task panicked and one returned an error.
C7_Witness ==
    /\ pool = "returned"
    /\ workerCount >= 1
    /\ T = 2
    /\ result[1] = "panic"
    /\ result[2] = "err"

\* C8: nothing but an empty queue makes a worker leave: a worker that has
\* exited left an empty queue behind, and when the pool (W >= 1) has returned
\* every queued task was dequeued and its Process invoked, whatever the earlier
\* tasks did and whether or not the context was cancelled.
C8_NoEarlyExit ==
    /\ \A w \in WorkerIds : wpc[w] \in {"exit", "done"} => Len(Tasks) = 0
    /\ (pool = "returned" /\ workerCount >= 1) =>
          \A t \in Queued : got[t] >= 1 /\ calls[t] >= 1

\* The context is cancelled, the first task failed, and the second task's
\* Process is running all the same.
C8_Witness ==
    /\ ctxDone
    /\ pool = "running"
    /\ T = 2
    /\ result[1] \in {"err", "panic"}
    /\ \E w \in WorkerIds : wpc[w] = "inProcess" /\ task[w] = 2

\* C9: when GetTasks yields no task, the counters stay zero, the reporter is
\* given zeros, and jobRunner.Run, when it returns, returns nil.
C9_NoTasksNoError ==
    (runner = "jobRunner" /\ pool # "idle" /\ T = 0) =>
        /\ metrics = NewMetricsCollector
        /\ \A k \in 1..Len(reported) : reported[k] = NewMetricsCollector
        /\ Returned => (runErr = "nil" /\ reported = <<NewMetricsCollector>>)

\* jobRunner.Run returned after a job without tasks.
C9_Witness ==
    /\ runner = "jobRunner"
    /\ workerCount >= 1
    /\ pool = "returned"
    /\ T = 0
    /\ Returned
    /\ hooks.Report = 1

\* C10: when all T > 0 tasks returned an error, Run (when it returns) returns
\* "all tasks failed", and the counters are task_failed = task_total = T and
\* task_success = 0.
C10_AllFailedIsAnError ==
    (pool = "returned" /\ T > 0 /\ \A t \in Queued : result[t] = "err") =>
        /\ metrics.taskFailed = T
        /\ metrics.taskTotal = T
        /\ metrics.taskSuccess = 0
        /\ Returned => runErr = ErrAllFailed

\* jobRunner.Run returned after both of its tasks returned an error.
C10_Witness ==
    /\ runner = "jobRunner"
    /\ Returned
    /\ T = 2
    /\ result[1] = "err" /\ result[2] = "err"
    /\ runErr = ErrAllFailed

NoCalls == \A t \in TaskIds : calls[t] = 0
NothingRan ==
    /\ hooks = [BeforeJob |-> 0, GetTasks |-> 0, AfterJob |-> 0, Report |-> 0]
    /\ NoCalls
    /\ reported = <<>>
    /\ pool = "idle"

\* C11: when at least one of the T >= 2 tasks succeeded and at least one failed
\* (by error or by panic), the run returns no error; the failures show in the
\* counters, which are what jobRunner.Run reports.
C11_PartialFailureTolerated ==
    (Returned /\ pool = "returned" /\ T >= 2
       /\ WithResult({"nil"}) # {} /\ WithResult({"err", "panic"}) # {}) =>
        /\ runErr = "nil"
        /\ metrics.taskFailed = Cardinality(WithResult({"err", "panic"}))
        /\ metrics.taskSuccess = Cardinality(WithResult({"nil"}))
        /\ runner = "jobRunner" => reported = <<Snapshot(metrics)>>

\* jobRunner.Run returned nil after one task failed and the other succeeded.
C11_Witness ==
    /\ runner = "jobRunner"
    /\ Returned
    /\ T = 2
    /\ result[1] = "err" /\ result[2] = "nil"
    /\ runErr = "nil"
    /\ reported[1].taskFailed = 1

\* C12: a command whose job has a worker count of 0 or less fails in its first
\* step with the configuration error, and neither then nor later is GetTasks, a
\* hook, a task or the report run.
C12_NonPositiveWorkerCountFailsFast ==
    /\ [](rpc = "RunE" => NothingRan)
    /\ []((runner = "RunE" /\ rpc = "done") => (runErr = ErrWorkers /\ NothingRan))
    /\ [][(rpc = "RunE" /\ workerCount < 1 /\ rpc' # rpc) =>
            (rpc' = "done" /\ runErr' = ErrWorkers /\ NothingRan')]_vars

\* The command returned the configuration error for a worker count of 0.
C12_Witness ==
    /\ runner = "RunE"
    /\ rpc = "done"
    /\ workerCount = 0
    /\ runErr = ErrWorkers

\* C13: once BeforeJob has returned an error, Run returns that error and
\* GetTasks, Process, AfterJob and the reporter are never called.
C13_BeforeJobErrorAborts ==
    hookResult.BeforeJob = "err" =>
        /\ rpc = "done"
        /\ runErr = ErrBeforeJob
        /\ hooks.GetTasks = 0 /\ hooks.AfterJob = 0 /\ hooks.Report = 0
        /\ NoCalls
        /\ reported = <<>>
        /\ pool = "idle"

\* Run returned the error of its before-hook.
C13_Witness ==
    /\ hookResult.BeforeJob = "err"
    /\ hooks.BeforeJob = 1
    /\ rpc = "done"
    /\ runErr = ErrBeforeJob

NoWorkerActive == \A w \in WorkerIds : wpc[w] \in {"none", "done"}
Counters ==
    [taskTotal |-> metrics.taskTotal, taskSuccess |-> metrics.taskSuccess,
     taskFailed |-> metrics.taskFailed]

\* C14: Run calls GetTasks at most once, and exactly once as soon as it is past
\* that step (the runs that end before it, by the configuration error or by
\* BeforeJob, are those of C12 and C13); once GetTasks has returned an error,
\* Run returns that error and the pool, Process, AfterJob and the reporter are
\* never reached, whether or not BeforeJob ran.
C14_GetTasksOnceAndErrorAborts ==
    /\ hooks.GetTasks <= 1
    /\ rpc \in {"RunE", "BeforeJob", "GetTasks"} => hooks.GetTasks = 0
    /\ (rpc \in {"Add", "pool", "AfterJob", "Report", "outcome"} \/ pool # "idle")
          => (hooks.GetTasks = 1 /\ hookResult.GetTasks = "nil")
    /\ (rpc = "done" /\ runErr \notin {ErrWorkers, ErrBeforeJob}
          /\ hookResult.BeforeJob # "panic") => hooks.GetTasks = 1
    /\ hookResult.GetTasks = "err" =>
          /\ rpc = "done"
          /\ runErr = ErrGetTasks
          /\ pool = "idle"
          /\ spawned = 0
          /\ NoCalls
          /\ hooks.AfterJob = 0 /\ hooks.Report = 0
          /\ reported = <<>>

\* Run returned the error of GetTasks after its before-hook had run.
C14_Witness ==
    /\ hooks.BeforeJob = 1
    /\ hookResult.BeforeJob = "nil"
    /\ hooks.GetTasks = 1
    /\ hookResult.GetTasks = "err"
    /\ rpc = "done"
    /\ runErr = ErrGetTasks

Rank(pc) ==
    CASE pc = "RunE" -> 0
      [] pc = "BeforeJob" -> 1
      [] pc = "GetTasks" -> 2
      [] pc = "Add" -> 3
      [] pc = "pool" -> 4
      [] pc = "AfterJob" -> 5
      [] pc = "Report" -> 6
      [] pc = "outcome" -> 7
      [] pc = "recover" -> 8
      [] pc = "done" -> 9
InProcess == {w \in WorkerIds : wpc[w] \in {"Process", "inProcess"}}

\* C17: Run goes through before-hook, populate-queue, run-pool, after-hook,
\* report-metrics and determine-outcome in that order, leaving the sequence only
\* to end (TestRunner.Run has the populate-queue, run-pool and determine-outcome
\* steps only); no step is done twice or gone back to; workers exist and Process is
\* called only during run-pool, when BeforeJob has returned and every task is
\* in the queue or handed out, and never once AfterJob has started.
C17_LinearLifecycle ==
    /\ [][Rank(rpc') >= Rank(rpc)]_vars
    /\ [][(rpc' # rpc /\ Rank(rpc') < 8) =>
            \/ Rank(rpc') = Rank(rpc) + 1
            \/ runner = "TestRunner" /\ rpc = "pool" /\ rpc' = "outcome"]_vars
    /\ [][rpc' # "Add" => taskTotal' = taskTotal]_vars
    /\ [][(rpc # "pool" \/ rpc' # "pool") => (calls' = calls /\ wpc' = wpc)]_vars
    /\ [](\A h \in {"BeforeJob", "GetTasks", "AfterJob", "Report"} : hooks[h] <= 1)
    /\ [](\A t \in TaskIds : calls[t] <= 1)
    /\ [](rpc \in {"RunE", "BeforeJob", "GetTasks", "Add"} =>
            (NoCalls /\ pool = "idle" /\ \A w \in WorkerIds : wpc[w] = "none"))
    /\ [](rpc \in {"RunE", "BeforeJob"} => hooks.GetTasks = 0)
    /\ [](rpc \in {"RunE", "BeforeJob", "GetTasks"} => (taskTotal = 0 /\ Tasks = <<>>))
    /\ [](pool # "idle" =>
            (taskTotal = T /\ metrics.taskTotal = T
               /\ (runner = "jobRunner" => BeforeJob # "unread")
               /\ hookResult.BeforeJob \in {"none", "nil"}))
    /\ [](pool = "running" => rpc = "pool")
    /\ []((InProcess # {} \/ ~NoWorkerActive) => (rpc = "pool" /\ pool = "running"))
    /\ []((rpc \in {"AfterJob", "Report", "outcome"} \/ hooks.AfterJob + hooks.Report > 0)
            => (pool = "returned" /\ NoWorkerActive))

\* A worker is in Process while Run is in its pool step, all tasks enqueued.
C17_Witness ==
    /\ runner = "jobRunner"
    /\ BeforeJob = "set"
    /\ hookResult.BeforeJob = "nil"
    /\ rpc = "pool"
    /\ T = 2
    /\ taskTotal = 2
    /\ InProcess # {}

RunLevelPanic == \E h \in {"BeforeJob", "GetTasks", "AfterJob", "Report"} : hookResult[h] = "panic"

AtHandler == {w \in WorkerIds : wpc[w] \in {"recover", "recoverLocked", "PanicHandler"}}

\* C19: the panic handler, when set, is called once for each task whose Process
\* panicked (by the worker that ran it, which then goes on) and once for a
\* run-level panic, and for nothing else: a task that returns an error or nil
\* causes no call, and a task's panic never reaches Run's recover or its caller.
C19_HandlerOncePerPanic ==
    /\ PanicHandler =>
          handled.worker + Cardinality(AtHandler) = Cardinality(WithResult({"panic"}))
    /\ ~PanicHandler => handled = [worker |-> 0, run |-> 0]
    /\ PanicHandler => handled.worker <= Cardinality(WithResult({"panic"}))
    /\ (PanicHandler /\ NoWorkerActive) => handled.worker = Cardinality(WithResult({"panic"}))
    /\ handled.run <= 1
    /\ handled.run = 1 => (RunLevelPanic /\ rpc = "done")
    /\ (rpc = "recover" \/ runErr = Panicked) => RunLevelPanic
    /\ WithResult({"panic"}) = {} => handled.worker = 0

\* One task panicked and one returned an error: the handler was called once,
\* and Run returned.
C19_Witness ==
    /\ PanicHandler
    /\ T = 2
    /\ result[1] = "panic" /\ result[2] = "err"
    /\ handled = [worker |-> 1, run |-> 0]
    /\ Returned

\* What jobRunner.Run returns for the tasks of this run and how each ended.
JobRunnerOutcome ==
    Outcome([taskTotal |-> T,
             taskSuccess |-> Cardinality(WithResult({"nil"})),
             taskFailed |-> Cardinality(WithResult({"err", "panic"}))])

\* C20: for every number of tasks and every way they end, a run of W >= 1
\* workers that returns, by TestRunner.Run as by jobRunner.Run, returns what the
\* outcome rule of jobRunner.Run gives: an error exactly when all of T > 0 tasks
\* failed.
C20_TestRunnerAgreesWithJobRunner ==
    (Returned /\ pool = "returned" /\ workerCount >= 1) => runErr = JobRunnerOutcome

\* The number of tasks GetTask has returned so far.
Dequeued == Cardinality({t \in TaskIds : got[t] >= 1})
InQueue == {Tasks[i] : i \in 1..Len(Tasks)}

\* C21: a task GetTask has returned is not in the queue again; from the start of
\* the pool on the queue changes only by losing its head; and a task whose
\* Process returned an error or panicked had that one Process call and no other.
C21_NoRedelivery ==
    /\ [](\A t \in TaskIds : got[t] >= 1 => t \notin InQueue)
    /\ [][pool # "idle" => (Tasks' = Tasks \/ (Tasks # <<>> /\ Tasks' = Tail(Tasks)))]_vars
    /\ [][\A t \in TaskIds : calls[t] >= 1 => calls'[t] = calls[t]]_vars
    /\ [][\A t \in TaskIds : result[t] # "none" => result'[t] = result[t]]_vars
    /\ [](\A t \in TaskIds : result[t] \in {"err", "panic"} => (calls[t] = 1 /\ got[t] = 1))
    /\ []((pool = "returned" /\ workerCount >= 1) => (Tasks = <<>> /\ \A t \in Queued : calls[t] = 1))

\* The pool returned after a task that failed and a task that panicked.
C21_Witness ==
    /\ pool = "returned"
    /\ T = 2
    /\ result[1] = "err" /\ result[2] = "panic"
    /\ calls[1] = 1 /\ calls[2] = 1
    /\ Tasks = <<>>

\* C22: a worker that is about to call, or is inside, a task's Process holds
\* neither the queue mutex nor the metrics mutex, so neither mutex is kept from
\* the other goroutines for the time of a Process call.
C22_ProcessHoldsNoLock ==
    \A w \in WorkerIds :
        wpc[w] \in {"Process", "inProcess"} => (w \notin qmu /\ w \notin mu)

\* While worker 0 is inside Process, worker 1 holds the metrics mutex for its
\* increment, having dequeued and processed another task meanwhile.
C22_Witness ==
    /\ wpc[0] = "inProcess"
    /\ wpc[1] = "IncTaskSuccessLocked"
    /\ mu = {1}
    /\ qmu = {}

\* Worker 1 holds the queue mutex in GetTask while worker 0 is inside Process.
C22_QueueWitness ==
    /\ wpc[0] = "inProcess"
    /\ wpc[1] = "locked"
    /\ qmu = {1}

\* C23: Add appends at the tail and GetTask takes the head, so the k-th task
\* GetTask returns is the k-th task that was added: the queue is always the
\* added tasks not yet returned, in their order, and the returned ones are those
\* added before them; with one worker a task's Process is called only when every
\* task added before it has completed.
C23_QueueIsFifo ==
    /\ []((rpc # "GetTasks" /\ hookResult.GetTasks = "nil") =>
            Tasks = SubSeq(tasks, Dequeued + 1, taskTotal))
    /\ [](\A s, t \in Queued : (s < t /\ got[t] >= 1) => got[s] >= 1)
    /\ [][\A t \in TaskIds : got'[t] > got[t] =>
            (Tasks # <<>> /\ t = Head(Tasks) /\ t = tasks[Dequeued + 1])]_vars
    /\ [][\A i \in 1..Len(Tasks) : (Len(Tasks') > Len(Tasks)) => Tasks'[i] = Tasks[i]]_vars
    /\ [](workerCount = 1 =>
            \A s, t \in Queued : (s < t /\ calls[t] >= 1) => result[s] # "none")

\* One worker is in the Process of the second task, the first one completed.
C23_Witness ==
    /\ workerCount = 1
    /\ T = 2
    /\ wpc[0] = "inProcess"
    /\ task[0] = 2
    /\ result[1] # "none"
    /\ Tasks = <<>>

\* The number of workers Run was asked for, as a count of goroutines.
Units == IF workerCount > 0 THEN workerCount ELSE 0
Started == {w \in WorkerIds : wpc[w] # "none"}

\* C24: workerPool.Run starts exactly Workers goroutines (none for Workers <= 0),
\* each holding one task at a time: never more than Workers tasks are in Process
\* at once, and when the pool has returned each of the Workers goroutines has
\* ended, which it does once.
C24_ExactlyWorkersUnits ==
    /\ [](spawned <= Units /\ Started = {w \in WorkerIds : w < spawned})
    /\ [](Cardinality(InProcess) <= Units)
    /\ [](\A v, w \in InProcess : v # w => task[v] # task[w])
    /\ [](pool = "returned" =>
            (spawned = Units /\ wg = 0 /\ \A w \in WorkerIds : w < Units <=> wpc[w] = "done"))
    /\ [](wg = Cardinality({w \in Started : wpc[w] # "done"}))
    /\ [][\A w \in WorkerIds : wpc[w] = "done" => wpc'[w] = "done"]_vars
    /\ [][\A w \in WorkerIds : wpc[w] # "none" => wpc'[w] # "none"]_vars

\* Two workers are inside Process at once.
C24_Witness ==
    /\ workerCount = 2
    /\ Cardinality(InProcess) = 2
    /\ wpc[0] = "inProcess" /\ wpc[1] = "inProcess"
    /\ spawned = 2

\* retryWithBackoff properties
Attempts == 1..Len(attempts)
LastAttempt == attempts[Len(attempts)]
Retryable == {"Unavailable", "DeadlineExceeded", "Internal", "ResourceExhausted"}

\* C25: a call of fn that returns nil is the last one: retryWithBackoff returns
\* nil at once; the calls before it, at most maxRetries - 1, all returned a
\* retryable error, so fn was invoked exactly k times when attempt k is the
\* first to succeed (once when the first does).
C25_StopsAtFirstSuccess ==
    (attempts # <<>> /\ LastAttempt = "nil") =>
        /\ retpc = "done"
        /\ ret = "nil"
        /\ Len(attempts) <= maxRetries
        /\ Len(attempts) = retryI + 1
        /\ \A k \in Attempts : k < Len(attempts) => StatusCode(attempts[k]) \in Retryable

\* fn failed twice with a retryable error and succeeded on the third attempt.
C25_Witness ==
    /\ maxRetries = 3
    /\ attempts = <<"Unavailable", "Internal", "nil">>
    /\ retpc = "done"
    /\ ret = "nil"

\* C26: when every call of fn returns a retryable error and the context is not
\* cancelled, retryWithBackoff (maxRetries >= 1) returns after exactly
\* maxRetries calls, and returns the error of the last one.
C26_MaxRetriesExceeded ==
    /\ Len(attempts) <= (IF maxRetries > 0 THEN maxRetries ELSE 0)
    /\ (retpc = "done" /\ ~ctxDone /\ maxRetries >= 1
          /\ \A k \in Attempts : StatusCode(attempts[k]) \in Retryable) =>
            /\ Len(attempts) = maxRetries
            /\ ret = LastAttempt
            /\ ret # "nil"

\* Three attempts, all Unavailable: the third error is returned.
C26_Witness ==
    /\ maxRetries = 3
    /\ ~ctxDone
    /\ attempts = <<"Unavailable", "Unavailable", "Unavailable">>
    /\ retpc = "done"
    /\ ret = "Unavailable"

\* C27: an error of fn that is not retryable is returned at once: it is the last
\* call of fn, no backoff wait follows it, and it is what retryWithBackoff
\* returns, however many attempts were left.
C27_NonRetryableStops ==
    \A k \in Attempts :
        (attempts[k] # "nil" /\ StatusCode(attempts[k]) \notin Retryable) =>
            /\ k = Len(attempts)
            /\ retpc = "done"
            /\ backoff = 0
            /\ ret = attempts[k]

\* PermissionDenied on the first of three attempts.
C27_Witness ==
    /\ maxRetries = 3
    /\ attempts = <<"PermissionDenied">>
    /\ retpc = "done"
    /\ ret = "PermissionDenied"

\* C28: in the backoff wait after a retryable failure, a context that is
\* cancelled (before the wait began or during it) makes retryWithBackoff return
\* the context's error, context.Canceled, with no further call of fn; it returns
\* that error in no other case.
C28_CancelDuringBackoff ==
    /\ [][(retpc = "select" /\ ctxDone) =>
            (retpc' = "done" /\ ret' = ErrCanceled /\ attempts' = attempts)]_vars
    /\ [][retpc = "done" => (attempts' = attempts /\ ret' = ret)]_vars
    /\ [](retpc = "select" =>
            (attempts # <<>> /\ StatusCode(LastAttempt) \in Retryable
               /\ retryI < maxRetries - 1 /\ backoff > 0))
    /\ [](ret = ErrCanceled =>
            (ctxDone /\ retpc = "done" /\ attempts # <<>>
               /\ StatusCode(LastAttempt) \in Retryable /\ Len(attempts) = retryI + 1
               /\ Len(attempts) < maxRetries))

\* The context was cancelled during the wait after the first failure (it was
\* not cancelled when retryWithBackoff was called); fn was called once.
C28_Witness ==
    /\ maxRetries = 3
    /\ attempts = <<"Unavailable">>
    /\ ctxDone
    /\ retpc = "done"
    /\ ret = ErrCanceled

\* C29: isRetryable is true for the codes Unavailable, DeadlineExceeded, Internal
\* and ResourceExhausted and false for every other code and for errors without a
\* status: retryWithBackoff goes on (to the backoff wait or the next attempt)
\* after exactly these, and returns every other error at once.
C29_RetryableCodes ==
    /\ \A c \in Codes : isRetryable(c) <=> c \in Retryable
    /\ \A e \in Errors \ Codes : ~isRetryable(e)
    /\ \A c \in {"PermissionDenied", "NotFound", "AlreadyExists", "InvalidArgument"} :
          ~isRetryable(c)
    /\ retpc = "select" => err \in Retryable
    /\ (retpc \in {"for", "fn"} /\ attempts # <<>>) => LastAttempt \in Retryable
    /\ \A k \in Attempts :
          attempts[k] \in Retryable => (k < Len(attempts) \/ retpc # "done" \/ ret # attempts[k]
                                         \/ retryI >= maxRetries)

\* The loop went on after Internal and stopped at NotFound.
C29_Witness ==
    /\ maxRetries = 3
    /\ attempts = <<"Internal", "NotFound">>
    /\ retpc = "done"
    /\ ret = "NotFound"

\* C30: with GCP_PROJECT_ID and CLUSTER_ID set and PULL_SECRET_DATA not set,
\* GetTasks returns an error.
C30_MissingPullSecretDataIsAnError ==
    (jobErr # "none" /\ env.GCP_PROJECT_ID # "" /\ env.CLUSTER_ID # ""
       /\ env.PULL_SECRET_DATA = "") => jobErr # "nil"

\* The workers that hold a task between its dequeue and its count.
Uncounted ==
    {w \in WorkerIds : wpc[w] \in {"Process", "inProcess", "IncTaskSuccess", "IncTaskFailed",
                                   "recover", "IncTaskSuccessLocked", "IncTaskFailedLocked",
                                   "recoverLocked"}}
CanDequeue(w) == ENABLED GetTaskLock(w) \/ ENABLED GetTaskHead(w) \/ ENABLED GetTaskSlice(w)

\* C32: with two or more workers the tasks A and B, queued in this order, can
\* complete in either order: while A is with a worker that has not finished it
\* and B is the head of the queue, the pool can start another worker or another
\* worker can go on dequeuing B, and when two workers are inside Process each of
\* the two calls can be the next to return.
C32_EitherCompletionOrder ==
    /\ \A v \in WorkerIds :
          (workerCount >= 2 /\ wpc[v] \in {"Process", "inProcess"} /\ task[v] = 1
             /\ Tasks # <<>> /\ Head(Tasks) = 2) =>
              \/ ENABLED Spawn
              \/ \E w \in WorkerIds \ {v} : CanDequeue(w)
    /\ \A v, w \in WorkerIds :
          (v # w /\ wpc[v] = "inProcess" /\ wpc[w] = "inProcess") =>
              (ENABLED ProcessReturn(v) /\ ENABLED ProcessReturn(w))

\* B (task 2) has completed while A (task 1), dequeued first, is still inside
\* Process.
C32_Witness ==
    /\ workerCount >= 2
    /\ tasks = <<1, 2>>
    /\ result[2] # "none"
    /\ result[1] = "none"
    /\ \E w \in WorkerIds : wpc[w] = "inProcess" /\ task[w] = 1

\* A has completed while B is still inside Process of the other worker.
C32_WitnessFifoOrder ==
    /\ workerCount >= 2
    /\ tasks = <<1, 2>>
    /\ result[1] # "none"
    /\ result[2] = "none"
    /\ \E v, w \in WorkerIds : v # w /\ task[v] = 1 /\ wpc[w] = "inProcess" /\ task[w] = 2

\* C33: task_total changes only in the step of Run that ends populate-queue,
\* where it becomes the number of tasks GetTasks returned, before any worker is
\* started; from then on it keeps that value; an increment of task_success
\* changes nothing else, and neither does an increment of task_failed.
C33_TaskTotalSetOnce ==
    /\ [][metrics'.taskTotal # metrics.taskTotal =>
            (rpc = "Add" /\ rpc' = "pool" /\ pool = "idle" /\ spawned = 0
               /\ metrics'.taskTotal = T /\ metrics.taskTotal = 0)]_vars
    /\ [][(rpc = "Add" /\ rpc' = "pool") => metrics' = [NewMetricsCollector EXCEPT !.taskTotal = T]]_vars
    /\ [][pool # "idle" => metrics'.taskTotal = metrics.taskTotal]_vars
    /\ [](pool = "idle" => metrics = NewMetricsCollector)
    /\ [](pool # "idle" => metrics.taskTotal = T)
    /\ [][metrics'.taskSuccess # metrics.taskSuccess =>
            metrics' = [metrics EXCEPT !.taskSuccess = @ + 1]]_vars
    /\ [][metrics'.taskFailed # metrics.taskFailed =>
            metrics' = [metrics EXCEPT !.taskFailed = @ + 1]]_vars

\* The total is 2 and one task was counted in each counter.
C33_Witness ==
    /\ pool = "running"
    /\ metrics = [taskTotal |-> 2, taskSuccess |-> 1, taskFailed |-> 1]

\* C34: from the start of the pool on, the tasks in the queue, the tasks a worker
\* holds between their dequeue and their count, task_success and task_failed
\* add up to task_total, and each worker holds one task at most.
C34_ConservationOfTasks ==
    pool # "idle" =>
        /\ Len(Tasks) + Cardinality(Uncounted) + metrics.taskSuccess + metrics.taskFailed
              = metrics.taskTotal
        /\ Cardinality(Uncounted) = Cardinality({task[w] : w \in Uncounted})
        /\ Dequeued = Cardinality(Uncounted) + metrics.taskSuccess + metrics.taskFailed
        /\ Len(Tasks) + Dequeued = T

\* The queue is empty: one task is counted and the other is held by a worker
\* that has not counted it yet.
C34_Witness ==
    /\ pool = "running"
    /\ T = 2
    /\ Tasks = <<>>
    /\ Cardinality(Uncounted) = 1
    /\ metrics.taskSuccess + metrics.taskFailed = 1

\* C35: when Run returns nil for a job with T > 0 tasks, whatever workerCount it
\* was given, the Process of every task was invoked and one of them returned nil.
C35_NilMeansSomeTaskSucceeded ==
    (runner \in {"jobRunner", "TestRunner"} /\ Returned /\ runErr = "nil" /\ T > 0) =>
        /\ \A t \in Queued : calls[t] >= 1
        /\ WithResult({"nil"}) # {}

\* C36: whatever maxRetries is, retryWithBackoff returns nil only when some call
\* of fn returned nil.
C36_NilOnlyAfterSuccess ==
    (retpc = "done" /\ ret = "nil") => \E k \in Attempts : attempts[k] = "nil"

\* The API operations that read or write a secret.
SecretOps == {"GetSecret", "CreateSecret", "AddSecretVersion", "AccessSecretVersion"}

\* C31: in dry-run mode Process performs no secret operation and enters no
\* retry loop: no GetSecret, CreateSecret, AddSecretVersion or
\* AccessSecretVersion call is ever made, retryWithBackoff is never entered, and
\* once validation and client initialisation have succeeded Process returns nil.
C31_DryRunTouchesNoSecret ==
    (jobTasks # <<>> /\ receiver.DryRun) =>
        /\ \A op \in SecretOps : apiCalls[op] = 0
        /\ retpc = "idle"
        /\ attempts = <<>>
        /\ fpc = "none"
        /\ ops = <<>>
        /\ (ppc = "done" /\ client # "none") => procErr = "nil"

\* A dry run has validated, created the client, and returned nil.
C31_Witness ==
    /\ jobTasks # <<>>
    /\ receiver.DryRun
    /\ ppc = "done"
    /\ apiCalls.NewClient = 1
    /\ client = "closed"
    /\ procErr = "nil"

\* The current or last invocation of fn was one of createOrUpdateSecret.
InCreateOrUpdate == ops # <<>> /\ ops[1].op = "GetSecret"

\* In that invocation the existence check failed with an error other than
\* NotFound, or createSecret failed.
CheckOrCreateFailed ==
    \/ ops[1].res \notin {"nil", "NotFound"}
    \/ \E k \in DOMAIN ops : ops[k].op = "CreateSecret" /\ ops[k].res # "nil"

\* C37: within each invocation of createOrUpdateSecret, CreateSecret is called
\* only right after a GetSecret that reported NotFound, AddSecretVersion only
\* after a GetSecret that found the secret or after a CreateSecret that
\* succeeded; and when the existence check fails other than by NotFound, or
\* createSecret fails, the invocation has ended without AddSecretVersion and
\* has returned an error.
C37_CreateOnlyIfNotFoundAddOnlyIfPresent ==
    InCreateOrUpdate =>
        /\ \A k \in DOMAIN ops :
             /\ ops[k].op = "GetSecret" => k = 1
             /\ ops[k].op = "CreateSecret" =>
                    k = 2 /\ ops[1].res = "NotFound"
             /\ ops[k].op = "AddSecretVersion" =>
                    \/ k = 2 /\ ops[1].res = "nil"
                    \/ /\ k = 3
                       /\ ops[1].res = "NotFound"
                       /\ ops[2] = [op |-> "CreateSecret", res |-> "nil"]
        /\ CheckOrCreateFailed =>
             /\ \A k \in DOMAIN ops : ops[k].op # "AddSecretVersion"
             /\ fpc = "none"
             /\ attempts # <<>>
             /\ attempts[Len(attempts)] # "nil"

\* An invocation found no secret, created it and added a version.
C37_Witness ==
    /\ InCreateOrUpdate
    /\ Len(ops) = 3
    /\ ops[1].res = "NotFound"
    /\ ops[2] = [op |-> "CreateSecret", res |-> "nil"]
    /\ ops[3] = [op |-> "AddSecretVersion", res |-> "nil"]

\* An invocation whose createSecret failed has returned its error.
C37_WitnessCreateFailed ==
    /\ InCreateOrUpdate
    /\ Len(ops) = 2
    /\ ops[2] = [op |-> "CreateSecret", res |-> "PermissionDenied"]
    /\ fpc = "none"
    /\ ret = "failed to create secret: failed to create secret: PermissionDenied"

\* A required field of the task is empty.
ConfigIncomplete ==
    \E f \in {"GCPProjectID", "ClusterID", "SecretName", "PullSecret"} : receiver[f] = ""

\* C38: Process keeps its step order. A task that fails validateConfig or
\* validatePullSecret never gets a client or any API call, and Process returns
\* the validation error; verifySecret is attempted only after the retried
\* createOrUpdateSecret has returned nil; and a Process that is not a dry run
\* returns nil only if both retried steps returned nil.
C38_ProcessStepOrder ==
    jobTasks # <<>> =>
        /\ (ConfigIncomplete \/ validatePullSecret(receiver.PullSecret) # "nil") =>
             /\ \A op \in DOMAIN apiCalls : apiCalls[op] = 0
             /\ client = "none"
             /\ retpc = "idle"
             /\ ppc \in {"idle", "validatePullSecret", "done"}
             /\ ppc = "done" => procErr \notin {"none", "nil"}
        /\ (ppc = "verifySecret" \/ apiCalls.AccessSecretVersion > 0) =>
             /\ stepRet.createOrUpdateSecret = "nil"
             /\ apiCalls.AddSecretVersion >= 1
        /\ (ppc = "done" /\ procErr = "nil" /\ ~receiver.DryRun) =>
             /\ stepRet.createOrUpdateSecret = "nil"
             /\ stepRet.verifySecret = "nil"
             /\ apiCalls.AddSecretVersion >= 1
             /\ apiCalls.AccessSecretVersion >= 1

\* A Process that is not a dry run has returned nil after both steps, the
\* first of which needed a retry.
C38_Witness ==
    /\ jobTasks # <<>>
    /\ ~receiver.DryRun
    /\ ppc = "done"
    /\ procErr = "nil"
    /\ stepRet = [createOrUpdateSecret |-> "nil", verifySecret |-> "nil"]
    /\ apiCalls.GetSecret = 2

\* A Process has returned the error of validatePullSecret.
C38_WitnessValidationFailed ==
    /\ jobTasks # <<>>
    /\ ppc = "done"
    /\ procErr = "invalid pull secret format: missing 'auths' key"

====
